---- MODULE Spec2Model ----
(***************************************************************************)
(* A model of deepsequence.py (Waino/hnmt): the composition protocol of    *)
(* DeepSequence over a stack of recurrent Units, in whole-sequence mode    *)
(* (theano.scan over DeepSequence.step) and in single-step mode            *)
(* (DeepSequence.step_fun driven by an incremental decoder).               *)
(*                                                                         *)
(* Values.  Every Python value that flows through the protocol is a tuple  *)
(* of integers: a batch tensor is one value per batch row, the floating    *)
(* point kernels of the tensor library are replaced by arithmetic modulo   *)
(* Modulus, None is the empty tuple and the OutputOnly sentinel is a       *)
(* tuple no tensor can equal.                                              *)
(***************************************************************************)
EXTENDS Integers, Sequences, FiniteSets, TLC

\* Bound on the size of a scenario: wrapped and unwrapped units of the stack,
\* timesteps of the input, and surplus or missing caller-supplied values.
MaxSize == 4

\* Bound on the sentences the decoder builds non-sequences for.
MaxRounds == 2

\* Batch rows (inputs.shape[1]) and the value domain of one tensor element.
Rows == {1, 2}
Val == {0, 1, 2}
Modulus == Cardinality(Val)
batch_size == Cardinality(Rows)

None == << >>
OutputOnly == << -1 >>

\* ---------------------------------------------------------------- tensors

\* Elementwise kernels of the tensor library, one value per batch row.
TAdd(a, b) == [r \in Rows |-> (a[r] + b[r]) % Modulus]
TMul(a, b) == [r \in Rows |-> (a[r] * b[r]) % Modulus]
TShift(a, k) == [r \in Rows |-> (a[r] + k) % Modulus]
sigmoid(a) == [r \in Rows |-> (a[r] + 1) % Modulus]
tanh(a) == [r \in Rows |-> (2 * a[r]) % Modulus]

\* T.switch(mask.dimshuffle(0, 'x'), a, b): row r takes a where the mask of
\* row r is nonzero and b where it is zero.
switch(mask, a, b) == [r \in Rows |-> IF mask[r] # 0 THEN a[r] ELSE b[r]]

\* expand_to_batch(param, n): the parameter vector repeated over n rows.
expand_to_batch(p, n) == [r \in 1..n |-> p[1]]

\* seq[::-1]
Reverse(s) == [i \in 1..Len(s) |-> s[Len(s) + 1 - i]]

\* Python's list[i] for a possibly negative i: whether it is in range, and
\* the element it denotes.
PyInRange(s, i) == i < Len(s) /\ i >= 0 - Len(s)
PyIndex(s, i) == IF i >= 0 THEN s[i + 1] ELSE s[Len(s) + i + 1]

\* ---------------------------------------------------------- declarations

Recurrence(variable, init, dropout) ==
    [variable |-> variable, init |-> init, dropout |-> dropout]

NonSequence(variable, func, idx) ==
    [variable |-> variable, func |-> func, idx |-> idx]

\* A unit of the stack: an LSTMUnit or a SeparatePathLSTMUnit, wrapped in
\* `residual` nested ResidualUnits.
UnitKinds ==
    [cls : {"LSTMUnit", "SeparatePathLSTMUnit"},
     use_attention : BOOLEAN,
     trainable_initial : BOOLEAN,
     residual : 0..(MaxSize - 1)]

wrapped(u) == [u EXCEPT !.residual = @ - 1]

\* The trainable initial states h_0 and c_0 of a unit (parameter vectors).
h_0(u) == IF u.trainable_initial THEN << 1 >> ELSE None
c_0(u) == IF u.trainable_initial THEN << 2 >> ELSE None

\* LSTMUnit.__init__: h, c, and with attention the attention output and the
\* three attention non-sequences.
LSTMUnit_recurrences(u) ==
    << Recurrence("h_tm1", h_0(u), 0), Recurrence("c_tm1", c_0(u), 0) >>
    \o (IF u.use_attention
        THEN << Recurrence("attention", OutputOnly, 0) >> ELSE << >>)

AttentionNonSequences(u) ==
    IF u.use_attention
    THEN << NonSequence("attended", "None", None),
            NonSequence("attended_dot_u", "attention_u", << 0 >>),
            NonSequence("attention_mask", "None", None) >>
    ELSE << >>

\* SeparatePathLSTMUnit.__init__: as LSTMUnit, then the separate path.
SeparatePathLSTMUnit_recurrences(u) ==
    LSTMUnit_recurrences(u) \o << Recurrence("h_breve", OutputOnly, 0) >>

\* ResidualUnit.__init__: the residual declaration.
residual == Recurrence("residual", OutputOnly, 0)

RECURSIVE recurrences(_)
\* Unit.recurrences, and ResidualUnit.recurrences over the wrapped unit.
recurrences(u) ==
    IF u.residual > 0 THEN << residual >> \o recurrences(wrapped(u))
    ELSE IF u.cls = "LSTMUnit" THEN LSTMUnit_recurrences(u)
    ELSE SeparatePathLSTMUnit_recurrences(u)

RECURSIVE non_sequences_of(_)
\* Unit.non_sequences, and ResidualUnit.non_sequences.
non_sequences_of(u) ==
    IF u.residual > 0 THEN non_sequences_of(wrapped(u))
    ELSE AttentionNonSequences(u)

n_rec(u) == Len(recurrences(u))
n_nonseq(u) == Len(non_sequences_of(u))

RECURSIVE Concat(_)
\* The concatenation of a list of lists.
Concat(ss) == IF ss = << >> THEN << >> ELSE Head(ss) \o Concat(Tail(ss))

\* DeepSequence.recurrences and DeepSequence.non_sequences: all units', in
\* unit order.
DeepSequence_recurrences(us) ==
    Concat([k \in 1..Len(us) |-> recurrences(us[k])])
DeepSequence_non_sequences(us) ==
    Concat([k \in 1..Len(us) |-> non_sequences_of(us[k])])

\* final_out_idx from the declarations the last unit holds itself, which a
\* ResidualUnit has none of.
final_out_idx_own(us) ==
    IF us[Len(us)].residual > 0 THEN 0 ELSE 0 - n_rec(us[Len(us)])

\* DeepSequence.final_out_idx
final_out_idx(us) == 0 - n_rec(us[Len(us)])

\* Model.parameters_list of a unit: the parameters registered on the unit
\* itself.  A ResidualUnit keeps its wrapped unit in a plain attribute and
\* registers no parameter of its own.
parameters_list(u, k) ==
    IF u.residual > 0 THEN << >> ELSE << [r \in Rows |-> k % Modulus] >>

\* DeepSequence.unit_parameters_list
unit_parameters_list(us) ==
    Concat([k \in 1..Len(us) |-> parameters_list(us[k], k)])

\* ------------------------------------------------------------ make_inits

\* What a call gives back: a value, or the exception it raised with the
\* position (in DeepSequence.recurrences) of the declaration its message
\* names, 0 when it names none.
Returned(v) == [raised |-> FALSE, exc |-> "", decl |-> 0, value |-> v]
Raised(e, d) == [raised |-> TRUE, exc |-> e, decl |-> d, value |-> << >>]

RECURSIVE make_inits_loop(_, _, _, _, _, _)
make_inits_loop(recs, k, supplied, inits_in, n, include_nones) ==
    IF k > Len(recs) THEN Returned(inits_in)
    ELSE IF recs[k].init = None
    THEN IF supplied = << >>
         THEN Raised("Exception", k)
         ELSE make_inits_loop(recs, k + 1, Tail(supplied),
                              Append(inits_in, Head(supplied)),
                              n, include_nones)
    ELSE IF recs[k].init = OutputOnly
    THEN make_inits_loop(recs, k + 1, supplied,
                         IF include_nones THEN Append(inits_in, None)
                         ELSE inits_in,
                         n, include_nones)
    ELSE make_inits_loop(recs, k + 1, supplied,
                         Append(inits_in, expand_to_batch(recs[k].init, n)),
                         n, include_nones)

\* make_inits that lets the IndexError of the empty list through.
make_inits_uncaught(us, nontrainable_recurrent_inits, n, include_nones) ==
    LET r == make_inits_loop(DeepSequence_recurrences(us), 1,
                             nontrainable_recurrent_inits, << >>, n,
                             include_nones)
    IN  IF r.raised THEN Raised("IndexError", 0) ELSE r

\* make_inits that takes the caller's values from the end of the list.
make_inits_from_end(us, nontrainable_recurrent_inits, n, include_nones) ==
    make_inits_loop(DeepSequence_recurrences(us), 1,
                    Reverse(nontrainable_recurrent_inits), << >>, n,
                    include_nones)

\* DeepSequence.make_inits
make_inits(us, nontrainable_recurrent_inits, n, include_nones) ==
    make_inits_loop(DeepSequence_recurrences(us), 1,
                    nontrainable_recurrent_inits, << >>, n, include_nones)

\* ----------------------------------------------------- make_nonsequences

\* Linear('attention_u'): the projection a precomputed non-sequence applies.
attention_u(a) == [r \in Rows |-> (2 * a[r] + 1) % Modulus]

\* ApplyFunc that hands the referenced non-sequence on as it is.
ApplyFunc_skipped(func, x) == x

\* ns.func(x) for a declaration whose func is set.
ApplyFunc(func, x) == IF func = "attention_u" THEN attention_u(x) ELSE x

\* What make_nonsequences gives back: as Returned and Raised, with the
\* caller's list as the call leaves it (left) and the declarations ns_func
\* was asked for, in order (asked), each as <<unit, position>>.
NsReturned(v, l, a) ==
    [raised |-> FALSE, exc |-> "", decl |-> 0, value |-> v,
     left |-> l, asked |-> a]
NsRaised(e, l, a) ==
    [raised |-> TRUE, exc |-> e, decl |-> 0, value |-> << >>,
     left |-> l, asked |-> a]

RECURSIVE make_nonsequences_loop(_, _, _, _, _, _, _, _, _)
\* The two nested loops: unit k, its declaration j, the caller's list as
\* popped so far, and the copy of it taken when unit k began.
make_nonsequences_loop(us, k, j, non_sequences, unit_nonseq, non_sequences_in, asked, include_params, do_eval) ==
    IF k > Len(us)
    THEN NsReturned(IF include_params
                    THEN non_sequences_in \o unit_parameters_list(us)
                    ELSE non_sequences_in,
                    non_sequences, asked)
    ELSE IF j > n_nonseq(us[k])
    THEN make_nonsequences_loop(us, k + 1, 1, non_sequences, non_sequences,
                                non_sequences_in, asked,
                                include_params, do_eval)
    ELSE LET ns == non_sequences_of(us[k])[j] IN
         IF ns.func # "None"
         THEN LET now == IF do_eval THEN Append(asked, << k, j >>)
                         ELSE asked IN
              IF ~PyInRange(unit_nonseq, ns.idx[1])
              THEN NsRaised("IndexError", non_sequences, now)
              ELSE make_nonsequences_loop(
                       us, k, j + 1, non_sequences, unit_nonseq,
                       Append(non_sequences_in,
                              ApplyFunc(ns.func,
                                        PyIndex(unit_nonseq, ns.idx[1]))),
                       now, include_params, do_eval)
         ELSE IF non_sequences = << >>
              THEN NsRaised("IndexError", non_sequences, asked)
              ELSE make_nonsequences_loop(
                       us, k, j + 1, Tail(non_sequences), unit_nonseq,
                       Append(non_sequences_in, Head(non_sequences)),
                       asked, include_params, do_eval)

\* make_nonsequences that puts the units' parameters first.
make_nonsequences_params_first(us, non_sequences, include_params, do_eval) ==
    LET r == make_nonsequences_loop(us, 1, 1, non_sequences, non_sequences,
                                    << >>, << >>, FALSE, do_eval)
    IN  IF r.raised \/ ~include_params THEN r
        ELSE [r EXCEPT !.value = unit_parameters_list(us) \o @]

\* DeepSequence.make_nonsequences
make_nonsequences(us, non_sequences, include_params, do_eval) ==
    make_nonsequences_loop(us, 1, 1, non_sequences, non_sequences, << >>,
                           << >>, include_params, do_eval)

\* ------------------------------------------------------ ns_func, step_fun

\* The key of the compiled single-step function among the compiled
\* functions; a precomputation function has the key <<unit, position>> of
\* its declaration.
StepFunKey == << 0, 0 >>

\* ns_func_builds without the test of the cache.
ns_func_builds_always(cache, asked) == asked

\* The declarations ns_func compiles a function for when asked for those of
\* `asked` in turn: the ones not in the cache.
ns_func_builds(cache, asked) == SelectSeq(asked, LAMBDA d : d \notin cache)

\* What step_fun compiles: the single-step function, unless it has one.
step_fun_builds(cached) == IF cached THEN << >> ELSE << StepFunKey >>

\* ---------------------------------------------------------- group_outputs

\* The entries of seqs whose recurrence has (want = TRUE) or has not the
\* init OutputOnly, in order.
RECURSIVE Pick(_, _, _, _)
Pick(recs, seqs, k, want) ==
    IF k > Len(recs) \/ k > Len(seqs) THEN << >>
    ELSE (IF (recs[k].init = OutputOnly) = want THEN << seqs[k] >>
          ELSE << >>)
         \o Pick(recs, seqs, k + 1, want)

\* group_outputs that takes every channel for a state.
group_outputs_none(us, seqs) ==
    [final_out |-> PyIndex(seqs, final_out_idx(us)),
     states |-> seqs,
     outputs |-> << >>]

\* DeepSequence.group_outputs
group_outputs(us, seqs) ==
    [final_out |-> PyIndex(seqs, final_out_idx(us)),
     states |-> Pick(DeepSequence_recurrences(us), seqs, 1, FALSE),
     outputs |-> Pick(DeepSequence_recurrences(us), seqs, 1, TRUE)]

\* ------------------------------------------------------------ unit steps

\* T.dot(a, w) for a weight w, and the attention kernels.
dot(a, w) == [r \in Rows |-> (a[r] * w) % Modulus]
softmax_masked(a, mask) ==
    [r \in Rows |-> IF mask[r] # 0 THEN (a[r] + 1) % Modulus ELSE 0]
\* T.concatenate([a, b], axis=1) as the following T.dot(., w) reads it: the
\* two halves meet two blocks of w.
concatenate(a, b) == [r \in Rows |-> (a[r] + 2 * b[r]) % Modulus]

\* The attention vector of a step, from h_tm1 and the non-sequences
\* attended_dot_u and attention_mask.
attention_of(h_tm1, attended_dot_u, attention_mask) ==
    softmax_masked(dot(tanh(TAdd(attended_dot_u, dot(h_tm1, 2))), 1),
                   attention_mask)

\* inputs with the compressed attended vector appended.
attended_inputs(inputs, attended, attention) ==
    concatenate(inputs, TMul(attended, attention))

\* The input of the affine step of a unit.
affine_inputs(u, inputs, unit_recs, unit_nonseqs) ==
    IF u.use_attention
    THEN attended_inputs(inputs, unit_nonseqs[1],
                         attention_of(unit_recs[1], unit_nonseqs[2],
                                      unit_nonseqs[3]))
    ELSE inputs

\* The attention output of a unit, if it has one.
attention_output(u, unit_recs, unit_nonseqs) ==
    IF u.use_attention
    THEN << attention_of(unit_recs[1], unit_nonseqs[2], unit_nonseqs[3]) >>
    ELSE << >>

\* x = dot(inputs, w) + dot(h_tm1, u) + b
affine(inputs, w, h_tm1, u) == TShift(TAdd(dot(inputs, w), dot(h_tm1, u)), 1)

\* The LSTM gate of an LSTMUnit on the affine combination x: h_t and c_t.
gate(x, c_tm1) ==
    LET i == sigmoid(x)
        f == sigmoid(TShift(x, 1))
        o == sigmoid(TShift(x, 2))
        c == tanh(TShift(x, 3))
        c_t == TAdd(TMul(f, c_tm1), TMul(i, c))
        h_t == TMul(o, tanh(c_t))
    IN  << h_t, c_t >>

\* LSTMUnit.step: gate(out, h, c, *nonseqs), which gives h_t, c_t and, with
\* attention, the attention vector.
LSTMUnit_step(u, out, unit_recs, unit_nonseqs) ==
    gate(affine(affine_inputs(u, out, unit_recs, unit_nonseqs), 1,
                unit_recs[1], 2),
         unit_recs[2])
    \o attention_output(u, unit_recs, unit_nonseqs)

\* The five slices of x in SeparatePathLSTMUnit.step: h_t, c_t and h_breve.
separate_path(x, c_tm1) ==
    LET i == sigmoid(x)
        f == sigmoid(TShift(x, 1))
        o == sigmoid(TShift(x, 2))
        c == tanh(TShift(x, 3))
        h_breve == tanh(TShift(x, 4))
        c_t == TAdd(TMul(f, c_tm1), TMul(i, c))
        h_t == TMul(o, tanh(c_t))
    IN  << h_t, c_t, h_breve >>

\* separate_path_outputs with the separate path before the attention.
separate_path_outputs_breve_first(hcb, attention) ==
    << hcb[1], hcb[2], hcb[3] >> \o attention

\* The outputs in the order SeparatePathLSTMUnit.step returns them.
separate_path_outputs(hcb, attention) ==
    << hcb[1], hcb[2] >> \o attention \o << hcb[3] >>

\* SeparatePathLSTMUnit.step
SeparatePathLSTMUnit_step(u, inputs, unit_recs, unit_nonseqs) ==
    separate_path_outputs(
        separate_path(
            affine(affine_inputs(u, inputs, unit_recs, unit_nonseqs), 2,
                   unit_recs[1], 1),
            unit_recs[2]),
        attention_output(u, unit_recs, unit_nonseqs))

\* ResidualUnit.step that passes the wrapped unit's primary output on.
ResidualUnit_step_no_add(out, unit_recs) == << unit_recs[1] >> \o unit_recs

\* ResidualUnit.step, given the wrapped unit's outputs.
ResidualUnit_step(out, unit_recs) ==
    << TAdd(out, unit_recs[1]) >> \o unit_recs

RECURSIVE unit_step(_, _, _, _)
\* unit.step(out, unit_recs, unit_nonseqs), by the class of the unit.
unit_step(u, out, unit_recs, unit_nonseqs) ==
    IF u.residual > 0
    THEN ResidualUnit_step(
             out, unit_step(wrapped(u), out, unit_recs, unit_nonseqs))
    ELSE IF u.cls = "LSTMUnit"
    THEN LSTMUnit_step(u, out, unit_recs, unit_nonseqs)
    ELSE SeparatePathLSTMUnit_step(u, out, unit_recs, unit_nonseqs)

\* ------------------------------------------------------ DeepSequence.step

RECURSIVE group_rec(_, _, _, _, _, _, _)
\* The first loop of step: the recurrent arguments grouped by unit, and one
\* entry of recurrents_in per recurrence.
group_rec(us, k, j, args_tail, unit_rec, grouped_rec, recurrents_in) ==
    IF k > Len(us)
    THEN [raised |-> FALSE, args_tail |-> args_tail,
          grouped_rec |-> grouped_rec, recurrents_in |-> recurrents_in]
    ELSE IF j > n_rec(us[k])
    THEN group_rec(us, k + 1, 1, args_tail, << >>,
                   Append(grouped_rec, unit_rec), recurrents_in)
    ELSE IF recurrences(us[k])[j].init = OutputOnly
    THEN group_rec(us, k, j + 1, args_tail, unit_rec, grouped_rec,
                   Append(recurrents_in, OutputOnly))
    ELSE IF args_tail = << >>
    THEN [raised |-> TRUE, args_tail |-> args_tail,
          grouped_rec |-> grouped_rec, recurrents_in |-> recurrents_in]
    ELSE group_rec(us, k, j + 1, Tail(args_tail),
                   Append(unit_rec, Head(args_tail)), grouped_rec,
                   Append(recurrents_in, Head(args_tail)))

RECURSIVE group_nonseq(_, _, _, _)
\* The second loop of step: the non-sequences grouped by unit.
group_nonseq(us, k, args_tail, grouped_nonseq) ==
    IF k > Len(us)
    THEN [raised |-> FALSE, args_tail |-> args_tail,
          grouped_nonseq |-> grouped_nonseq]
    ELSE IF Len(args_tail) < n_nonseq(us[k])
    THEN [raised |-> TRUE, args_tail |-> args_tail,
          grouped_nonseq |-> grouped_nonseq]
    ELSE group_nonseq(us, k + 1,
                      SubSeq(args_tail, n_nonseq(us[k]) + 1, Len(args_tail)),
                      Append(grouped_nonseq,
                             SubSeq(args_tail, 1, n_nonseq(us[k]))))

RECURSIVE apply_units(_, _, _, _, _, _)
\* apply_next that makes the last recurrent output of a unit the new input.
apply_next_last(us, k, grouped_rec, grouped_nonseq, recurrents_out, unit_recs_out) ==
    apply_units(us, k + 1, unit_recs_out[Len(unit_recs_out)], grouped_rec,
                grouped_nonseq, recurrents_out \o unit_recs_out)

\* One pass of the third loop of step: the outputs so far, then unit k's.
apply_next(us, k, grouped_rec, grouped_nonseq, recurrents_out, unit_recs_out) ==
    apply_units(us, k + 1, unit_recs_out[1], grouped_rec, grouped_nonseq,
                recurrents_out \o unit_recs_out)

\* The third loop of step: the units applied in stack order, the first
\* recurrent output of each the input of the next.
apply_units(us, k, out, grouped_rec, grouped_nonseq, recurrents_out) ==
    IF k > Len(us) \/ k > Len(grouped_rec) \/ k > Len(grouped_nonseq)
    THEN recurrents_out
    ELSE apply_next(us, k, grouped_rec, grouped_nonseq, recurrents_out,
                    unit_step(us[k], out, grouped_rec[k], grouped_nonseq[k]))

\* apply_mask with the branches of the switch exchanged.
apply_mask_exchanged(inputs_mask, recurrents_out, recurrents_in) ==
    [k \in 1..(IF Len(recurrents_out) < Len(recurrents_in)
               THEN Len(recurrents_out) ELSE Len(recurrents_in)) |->
        IF recurrents_in[k] # OutputOnly
        THEN switch(inputs_mask, recurrents_in[k], recurrents_out[k])
        ELSE recurrents_out[k]]

\* apply_mask without the test for the sentinel: an OutputOnly channel is
\* switched against zeros.
apply_mask_all(inputs_mask, recurrents_out, recurrents_in) ==
    [k \in 1..(IF Len(recurrents_out) < Len(recurrents_in)
               THEN Len(recurrents_out) ELSE Len(recurrents_in)) |->
        IF recurrents_in[k] # OutputOnly
        THEN switch(inputs_mask, recurrents_out[k], recurrents_in[k])
        ELSE switch(inputs_mask, recurrents_out[k], [r \in Rows |-> 0])]

\* apply_mask that never freezes.
apply_mask_none(inputs_mask, recurrents_out, recurrents_in) ==
    [k \in 1..(IF Len(recurrents_out) < Len(recurrents_in)
               THEN Len(recurrents_out) ELSE Len(recurrents_in)) |->
        recurrents_out[k]]

\* The inputs mask applied to all recurrents.
apply_mask(inputs_mask, recurrents_out, recurrents_in) ==
    [k \in 1..(IF Len(recurrents_out) < Len(recurrents_in)
               THEN Len(recurrents_out) ELSE Len(recurrents_in)) |->
        IF recurrents_in[k] # OutputOnly
        THEN switch(inputs_mask, recurrents_out[k], recurrents_in[k])
        ELSE recurrents_out[k]]

\* step_grouped without the test for missing non-sequences.
step_grouped_unchecked(us, inputs, inputs_mask, g, n) ==
    IF g.raised THEN Raised("IndexError", 0)
    ELSE Returned(apply_mask(
             inputs_mask,
             apply_units(us, 1, inputs, g.grouped_rec, n.grouped_nonseq,
                         << >>),
             g.recurrents_in))

\* step once its arguments are grouped (g by group_rec, n by group_nonseq).
step_grouped(us, inputs, inputs_mask, g, n) ==
    IF g.raised THEN Raised("IndexError", 0)
    ELSE IF n.raised THEN Raised("Exception", 0)
    ELSE Returned(apply_mask(
             inputs_mask,
             apply_units(us, 1, inputs, g.grouped_rec, n.grouped_nonseq,
                         << >>),
             g.recurrents_in))

step_rec_grouped(us, inputs, inputs_mask, g) ==
    step_grouped(us, inputs, inputs_mask, g,
                 group_nonseq(us, 1, g.args_tail, << >>))

\* DeepSequence.step
step(us, inputs, inputs_mask, args) ==
    step_rec_grouped(us, inputs, inputs_mask,
                     group_rec(us, 1, 1, args, << >>, << >>, << >>))

\* recurrents_in of a step: the recurrent inputs, with the sentinel at the
\* position of every OutputOnly recurrence.
recurrents_in_of(us, args) ==
    group_rec(us, 1, 1, args, << >>, << >>, << >>).recurrents_in

\* The outputs of the units of a step before the mask is applied.
fresh_grouped(us, inputs, g) ==
    apply_units(us, 1, inputs, g.grouped_rec,
                group_nonseq(us, 1, g.args_tail, << >>).grouped_nonseq,
                << >>)
fresh_outputs(us, inputs, args) ==
    fresh_grouped(us, inputs,
                  group_rec(us, 1, 1, args, << >>, << >>, << >>))

\* ------------------------------------------------------------ theano.scan

\* The slice of a sequence that scan iterates for taps [k].
TapSlice(seq, k) ==
    IF k >= 0 THEN SubSeq(seq, k + 1, Len(seq))
    ELSE SubSeq(seq, 1, Len(seq) + k)

\* Processed that takes no notice of go_backwards.
Processed_forwards(seq, k, go_backwards) == TapSlice(seq, k)

\* The sequence in the order scan processes it.
Processed(seq, k, go_backwards) ==
    IF go_backwards THEN Reverse(TapSlice(seq, k)) ELSE TapSlice(seq, k)

\* The entries of outs that scan feeds back: those whose outputs_info entry
\* is not None.
RECURSIVE fed_back(_, _, _)
fed_back(outputs_info, outs, k) ==
    IF k > Len(outputs_info) \/ k > Len(outs) THEN << >>
    ELSE (IF outputs_info[k] # None THEN << outs[k] >> ELSE << >>)
         \o fed_back(outputs_info, outs, k + 1)

RECURSIVE scan_loop(_, _, _, _, _, _, _, _)
\* The end of one iteration of scan: outs recorded, and fed back.
scan_next(us, xs, ms, i, outputs_info, non_sequences_in, hist, outs) ==
    scan_loop(us, xs, ms, i + 1, fed_back(outputs_info, outs, 1),
              outputs_info, non_sequences_in, Append(hist, outs))

\* One iteration of scan per element of xs: fn is DeepSequence.step, on the
\* current elements, the fed-back outputs and the non-sequences.
scan_loop(us, xs, ms, i, carry, outputs_info, non_sequences_in, hist) ==
    IF i > Len(xs) \/ i > Len(ms) THEN hist
    ELSE scan_next(us, xs, ms, i, outputs_info, non_sequences_in, hist,
                   step(us, xs[i], ms[i], carry \o non_sequences_in).value)

\* One sequence per output from the outputs of every iteration.
by_output(n, hist) == [c \in 1..n |-> [i \in 1..Len(hist) |-> hist[i][c]]]

\* theano.scan(fn=step, go_backwards, sequences, outputs_info,
\* non_sequences): one sequence per output, in processing order.
scan(us, go_backwards, k, xs, ms, outputs_info, non_sequences_in) ==
    by_output(Len(outputs_info),
              scan_loop(us, Processed(xs, k, go_backwards),
                        Processed(ms, k, go_backwards), 1,
                        fed_back(outputs_info, outputs_info, 1),
                        outputs_info, non_sequences_in, << >>))

\* --------------------------------------------------- DeepSequence.__call__

NoArguments == [inputs |-> << >>, inputs_mask |-> << >>, args |-> << >>]

NoResult ==
    [raised |-> FALSE, exc |-> "", decl |-> 0, from |-> "",
     final_out |-> << >>, states |-> << >>, outputs |-> << >>]

\* forward_order that leaves the sequences as scan produced them.
forward_order_as_produced(go_backwards, sc) == sc

\* tuple(seq[::-1] for seq in seqs) when running backwards.
forward_order(go_backwards, sc) ==
    IF go_backwards THEN [c \in 1..Len(sc) |-> Reverse(sc[c])] ELSE sc

\* What __call__ returns: the groups of group_outputs.
call_returns(g, left, sq) ==
    [ret |-> [NoResult EXCEPT !.final_out = g.final_out,
                              !.states = g.states,
                              !.outputs = g.outputs],
     left |-> left, seqs |-> sq]

call_grouped(us, left, sq) == call_returns(group_outputs(us, sq), left, sq)

\* __call__ once make_inits (i) and make_nonsequences (n) are done.
call_scanned(us, go_backwards, k, xs, ms, nonseqs, i, n) ==
    IF i.raised
    THEN [ret |-> [NoResult EXCEPT !.raised = TRUE, !.exc = i.exc,
                                   !.decl = i.decl, !.from = "make_inits"],
          left |-> nonseqs, seqs |-> << >>]
    ELSE IF n.raised
    THEN [ret |-> [NoResult EXCEPT !.raised = TRUE, !.exc = n.exc,
                                   !.decl = n.decl,
                                   !.from = "make_nonsequences"],
          left |-> n.left, seqs |-> << >>]
    ELSE call_grouped(us, n.left,
                      forward_order(go_backwards,
                                    scan(us, go_backwards, k, xs, ms,
                                         i.value, n.value)))

\* DeepSequence.__call__: what it returns or raises (ret), the caller's
\* list of non-sequences as it leaves it (left), and the ungrouped
\* sequences (seqs).
call(us, go_backwards, k, xs, ms, inits, nonseqs) ==
    call_scanned(us, go_backwards, k, xs, ms, nonseqs,
                 make_inits(us, inits, batch_size, TRUE),
                 make_nonsequences(us, nonseqs, TRUE, FALSE))

\* ------------------------------------------------------------------ state

VARIABLES
    units,          \* DeepSequence.units
    backwards,      \* DeepSequence.backwards
    offset,         \* DeepSequence.offset
    step_fun_cache, \* DeepSequence._step_fun: compiled or not
    ns_func_cache,  \* DeepSequence._ns_func_cache: the declarations compiled
    inputs,         \* the caller's inputs, one tensor per timestep
    inputs_mask,    \* the caller's mask, one row vector per timestep
    nontrainable_recurrent_inits,  \* the caller's initial states
    non_sequences,      \* the list the caller passes to __call__
    dec_non_sequences,  \* the list the decoder passes to make_nonsequences
    pc,             \* where the caller is
    ret,            \* what __call__ returned or raised
    seqs,           \* the ungrouped sequences of that call
    dec_ret,        \* what the decoder's last call returned or raised
    dec_states,     \* the decoder's current recurrent states
    dec_nonseqs,    \* the decoder's non-sequence values
    dec_in,         \* the arguments of each single-step call so far
    dec_outs,       \* the flat output list of each single-step call so far
    step_in,        \* the arguments of a call of step itself
    compiled,       \* the key of every function compiled so far, in order
    rounds          \* how many times the decoder built its non-sequences

vars ==
    << units, backwards, offset, step_fun_cache, ns_func_cache, inputs,
       inputs_mask, nontrainable_recurrent_inits, non_sequences,
       dec_non_sequences, pc, ret, seqs, dec_ret, dec_states, dec_nonseqs,
       dec_in, dec_outs, step_in, compiled, rounds >>

config == << units, backwards, offset >>
caller == << inputs, inputs_mask, nontrainable_recurrent_inits >>

\* ------------------------------------------------------------- scenarios

Offsets == {-1, 0, 1}

Abs(n) == IF n < 0 THEN 0 - n ELSE n
Cost(b) == IF b THEN 1 ELSE 0

\* The size of a unit: itself, its ResidualUnit wrappers, its attention and
\* its trainable initial states; and of a stack.
UnitSize(u) ==
    1 + u.residual + Cost(u.use_attention) + Cost(u.trainable_initial)

RECURSIVE StackSize(_)
StackSize(us) ==
    IF us = << >> THEN 0 ELSE UnitSize(Head(us)) + StackSize(Tail(us))

Stacks ==
    { us \in UNION { [1..n -> { u \in UnitKinds : UnitSize(u) <= MaxSize + 1 - n }]
                     : n \in 1..MaxSize } :
        StackSize(us) <= MaxSize }

\* How many values the caller has to supply.
NeededInits(us) ==
    Cardinality({ k \in 1..Len(DeepSequence_recurrences(us)) :
                    DeepSequence_recurrences(us)[k].init = None })
NeededNonseqs(us) ==
    Cardinality({ k \in 1..Len(DeepSequence_non_sequences(us)) :
                    DeepSequence_non_sequences(us)[k].func = "None" })

\* The tensors of a scenario: timestep t of the input, and the k-th initial
\* state and non-sequence the caller supplies.
InputAt(t) == [r \in Rows |-> (t + r) % Modulus]
SuppliedInit(k) == [r \in Rows |-> (k + r) % Modulus]
SuppliedNonseq(k) == [r \in Rows |-> (2 * k + r) % Modulus]
InputsOf(T) == [t \in 1..T |-> InputAt(t)]
SuppliedInits(n) == [k \in 1..n |-> SuppliedInit(k)]
SuppliedNonseqs(n) == [k \in 1..n |-> SuppliedNonseq(k)]

\* A scenario: a stack, a direction and an offset, an input of T timesteps
\* with any mask, and the caller's values, di and dn more (or fewer) than
\* the stack needs; all of it within MaxSize.
Init ==
    /\ units \in Stacks
    /\ backwards \in BOOLEAN
    /\ offset \in Offsets
    /\ step_fun_cache = FALSE
    /\ ns_func_cache = {}
    /\ \E T \in 0..MaxSize, di \in (0 - MaxSize)..1, dn \in (0 - MaxSize)..1 :
        /\ StackSize(units) + T + Abs(offset) + Cost(backwards)
             + Abs(di) + Abs(dn) <= MaxSize
        /\ NeededInits(units) + di >= 0
        /\ NeededNonseqs(units) + dn >= 0
        /\ inputs = InputsOf(T)
        /\ inputs_mask \in [1..T -> [Rows -> {0, 1}]]
        /\ nontrainable_recurrent_inits =
               SuppliedInits(NeededInits(units) + di)
        /\ non_sequences = SuppliedNonseqs(NeededNonseqs(units) + dn)
    /\ dec_non_sequences = non_sequences
    /\ pc = "start"
    /\ ret = NoResult
    /\ seqs = << >>
    /\ dec_ret = Returned(<< >>)
    /\ dec_states = << >>
    /\ dec_nonseqs = << >>
    /\ dec_in = << >>
    /\ dec_outs = << >>
    /\ step_in = NoArguments
    /\ compiled = << >>
    /\ rounds = 0

\* ---------------------------------------------------------------- actions

\* A mask row of ones.
Ones == [r \in Rows |-> 1]

\* The caller calls step itself, on a first timestep and on the decoder's
\* states followed by the first n of the non-sequences and parameters that
\* the whole-sequence call hands to scan.
Step ==
    /\ pc = "ready"
    /\ dec_outs = << >>
    /\ rounds = 1
    /\ \E n \in 0..Len(dec_nonseqs \o unit_parameters_list(units)) :
        LET args == dec_states
                    \o SubSeq(dec_nonseqs \o unit_parameters_list(units), 1, n)
        IN  /\ step_in' = [inputs |-> InputAt(1), inputs_mask |-> Ones,
                           args |-> args]
            /\ dec_ret' = step(units, InputAt(1), Ones, args)
    /\ pc' = "stepped"
    /\ UNCHANGED << config, caller, step_fun_cache, ns_func_cache,
                    non_sequences, dec_non_sequences, ret, seqs, dec_states,
                    dec_nonseqs, dec_in, dec_outs, compiled, rounds >>

\* The caller runs the whole sequence: DeepSequence.__call__.
Call ==
    /\ pc = "start"
    /\ LET c == call(units, backwards, offset, inputs, inputs_mask,
                     nontrainable_recurrent_inits, non_sequences)
       IN  /\ ret' = c.ret
           /\ seqs' = c.seqs
           /\ non_sequences' = c.left
    /\ pc' = "called"
    /\ UNCHANGED << config, caller, step_fun_cache, ns_func_cache,
                    dec_non_sequences, dec_ret, dec_states, dec_nonseqs,
                    dec_in, dec_outs, step_in, compiled, rounds >>

\* The decoder builds its initial states: make_inits(inits, batch_size).
DecMakeInits ==
    /\ pc = "called"
    /\ LET r == make_inits(units, nontrainable_recurrent_inits, batch_size,
                           FALSE)
       IN  /\ dec_ret' = r
           /\ dec_states' = r.value
           /\ pc' = IF r.raised THEN "failed" ELSE "inits"
    /\ UNCHANGED << config, caller, step_fun_cache, ns_func_cache,
                    non_sequences, dec_non_sequences, ret, seqs, dec_nonseqs,
                    dec_in, dec_outs, step_in, compiled, rounds >>

\* The decoder builds its non-sequences:
\* make_nonsequences(nonseqs, include_params=False, do_eval=True).
DecMakeNonsequences ==
    /\ pc = "inits"
    /\ LET r == make_nonsequences(units, dec_non_sequences, FALSE, TRUE)
       IN  /\ dec_ret' = [raised |-> r.raised, exc |-> r.exc,
                          decl |-> r.decl, value |-> r.value]
           /\ dec_nonseqs' = r.value
           /\ dec_non_sequences' = r.left
           /\ ns_func_cache' =
                  ns_func_cache \cup { r.asked[k] : k \in 1..Len(r.asked) }
           /\ compiled' = compiled \o ns_func_builds(ns_func_cache, r.asked)
           /\ pc' = IF r.raised THEN "failed" ELSE "ready"
    /\ rounds' = rounds + 1
    /\ UNCHANGED << config, caller, step_fun_cache, non_sequences, ret, seqs,
                    dec_states, dec_in, dec_outs, step_in >>

\* The inputs and mask rows in the order the whole-sequence call processes
\* them: what the decoder feeds, one per single-step call.
ProcInputs == Processed(inputs, offset, backwards)
ProcMask == Processed(inputs_mask, offset, backwards)

\* The states among a flat output list: what the decoder feeds back.
states_of(us, outs) == Pick(DeepSequence_recurrences(us), outs, 1, FALSE)

\* The decoder makes one single-step call: step_fun()(inputs, mask,
\* *states, *nonseqs), and keeps the states it returns for the next call.
StepFun ==
    /\ pc = "ready"
    /\ Len(dec_outs) < Len(ProcInputs)
    /\ LET t == Len(dec_outs) + 1
           args == dec_states \o dec_nonseqs
           r == step(units, ProcInputs[t], ProcMask[t], args)
       IN  /\ dec_ret' = r
           /\ dec_in' = Append(dec_in, [inputs |-> ProcInputs[t],
                                        inputs_mask |-> ProcMask[t],
                                        args |-> args])
           /\ dec_outs' = Append(dec_outs, r.value)
           /\ dec_states' = states_of(units, r.value)
           /\ pc' = IF r.raised THEN "failed" ELSE "ready"
    /\ step_fun_cache' = TRUE
    /\ compiled' = compiled \o step_fun_builds(step_fun_cache)
    /\ UNCHANGED << config, caller, ns_func_cache, non_sequences,
                    dec_non_sequences, ret, seqs, dec_nonseqs, step_in,
                    rounds >>

\* The values among the decoder's non-sequences that a caller supplies:
\* those of the declarations without func.
RECURSIVE external_values(_, _, _)
external_values(decls, values, m) ==
    IF m > Len(decls) \/ m > Len(values) THEN << >>
    ELSE (IF decls[m].func = "None" THEN << values[m] >> ELSE << >>)
         \o external_values(decls, values, m + 1)

\* The decoder, done with a sentence, builds the non-sequences of the next
\* one from a new list of the same tensors:
\* make_nonsequences(nonseqs, include_params=False, do_eval=True).
DecMakeNonsequencesAgain ==
    /\ pc = "ready"
    /\ Len(dec_outs) = Len(ProcInputs)
    /\ rounds < MaxRounds
    /\ LET r == make_nonsequences(
                    units,
                    external_values(DeepSequence_non_sequences(units),
                                    dec_nonseqs, 1),
                    FALSE, TRUE)
       IN  /\ dec_ret' = [raised |-> r.raised, exc |-> r.exc,
                          decl |-> r.decl, value |-> r.value]
           /\ dec_nonseqs' = r.value
           /\ dec_non_sequences' = r.left
           /\ ns_func_cache' =
                  ns_func_cache \cup { r.asked[k] : k \in 1..Len(r.asked) }
           /\ compiled' = compiled \o ns_func_builds(ns_func_cache, r.asked)
           /\ pc' = IF r.raised THEN "failed" ELSE "ready"
    /\ rounds' = rounds + 1
    /\ UNCHANGED << config, caller, step_fun_cache, non_sequences, ret, seqs,
                    dec_states, dec_in, dec_outs, step_in >>

Next ==
    \/ Call
    \/ DecMakeInits
    \/ DecMakeNonsequences
    \/ StepFun
    \/ DecMakeNonsequencesAgain
    \/ Step

Spec == Init /\ [][Next]_vars

\* ------------------------------------------------------------------ claims

\* The recurrences of the stack, which of them are states (fed back) and
\* the rank of recurrence k among those of its kind.
Recs == DeepSequence_recurrences(units)
IsState(k) == Recs[k].init # OutputOnly
Rank(k) == Cardinality({ j \in 1..k : IsState(j) = IsState(k) })
NStates == Cardinality({ k \in 1..Len(Recs) : IsState(k) })

\* Single-step call t: the mask row, the state passed in for recurrence k,
\* and what the units computed before the mask was applied.
MaskOf(t) == dec_in[t].inputs_mask
PrevState(t, k) == dec_in[t].args[Rank(k)]
Fresh(t) == fresh_outputs(units, dec_in[t].inputs, dec_in[t].args)

\* C1: in every single-step call, a state channel (init not OutputOnly)
\* comes back, in a row whose mask is 0, as the state that was passed in,
\* and in a row whose mask is not 0 as the value the units computed.
C1_MaskFreezesState ==
    \A t \in 1..Len(dec_outs) :
        /\ Len(dec_outs[t]) = Len(Recs)
        /\ \A k \in 1..Len(Recs) : IsState(k) =>
              \A r \in Rows :
                  dec_outs[t][k][r] =
                      IF MaskOf(t)[r] = 0 THEN PrevState(t, k)[r]
                      ELSE Fresh(t)[k][r]

\* A call with a masked and an unmasked row in which the units changed the
\* state of both rows: one row came back frozen, the other fresh.
C1_Witness ==
    \E t \in 1..Len(dec_outs) : \E k \in 1..Len(Recs) :
        /\ IsState(k)
        /\ \E r1 \in Rows, r2 \in Rows :
              /\ MaskOf(t)[r1] = 0 /\ MaskOf(t)[r2] = 1
              /\ Fresh(t)[k][r1] # PrevState(t, k)[r1]
              /\ Fresh(t)[k][r2] # PrevState(t, k)[r2]
              /\ dec_outs[t][k][r1] = PrevState(t, k)[r1]
              /\ dec_outs[t][k][r2] = Fresh(t)[k][r2]

\* C2: in every single-step call, an OutputOnly channel comes back as the
\* value the units computed, in every row, whatever the mask.
C2_OutputOnlyNeverFrozen ==
    \A t \in 1..Len(dec_outs) : \A k \in 1..Len(Recs) :
        ~IsState(k) => dec_outs[t][k] = Fresh(t)[k]

\* A call on a ResidualUnit around an attention unit with a masked row in
\* which the residual and the attention outputs are not zero.
C2_Witness ==
    \E t \in 1..Len(dec_outs) : \E r \in Rows :
        /\ MaskOf(t)[r] = 0
        /\ units[1].residual > 0 /\ units[1].use_attention
        /\ dec_outs[t][1][r] # 0
        /\ \E k \in 2..Len(Recs) :
              Recs[k].variable = "attention" /\ dec_outs[t][k][r] # 0

\* The place, in the sequences the whole-sequence call returns, of the
\* t-th timestep it processed.
NProcessed == Len(ProcInputs)
PlaceOf(t) == IF backwards THEN NProcessed + 1 - t ELSE t

\* C3: when the whole-sequence call returned, every single-step call the
\* decoder has made, on the timesteps in the order the whole-sequence call
\* processes them and on the states of the call before, returned for every
\* channel what the whole-sequence call recorded for that timestep.
C3_StepAgreesWithScan ==
    (pc \in {"ready", "failed"} /\ ~ret.raised) =>
        \A t \in 1..Len(dec_outs) :
            /\ Len(dec_outs[t]) = Len(seqs)
            /\ \A c \in 1..Len(seqs) : dec_outs[t][c] = seqs[c][PlaceOf(t)]

\* Two single-step calls made, the second on states the first changed, on
\* a stack with an OutputOnly channel.
C3_Witness ==
    /\ ~ret.raised
    /\ Len(dec_outs) >= 2
    /\ dec_in[2].args # dec_in[1].args
    /\ dec_outs[2] # dec_outs[1]
    /\ \E k \in 1..Len(Recs) : ~IsState(k)

\* The mask rows in the order of the returned sequences, the initial state
\* of the j-th state, and the place processed before place p.
MaskAt(p) == TapSlice(inputs_mask, offset)[p]
InitialState(j) ==
    make_inits(units, nontrainable_recurrent_inits, batch_size, FALSE).value[j]
IsFirst(p) == IF backwards THEN p = NProcessed ELSE p = 1
Before(p) == IF backwards THEN p + 1 ELSE p - 1
LastValid(p, r) ==
    { q \in 1..(p - 1) : \A q2 \in 1..p : (MaskAt(q2)[r] # 0) = (q2 <= q) }

\* C4: in the sequences of the whole-sequence call, the state of a row at a
\* timestep whose mask is 0 is its state at the timestep processed before,
\* or its initial state at the first timestep processed; and running
\* forwards on a row of ones followed by zeros, the state at a padded
\* timestep is the state at the last valid one.
C4_PaddingKeepsState ==
    (pc # "start" /\ ~ret.raised) =>
        /\ Len(ret.states) = NStates
        /\ \A j \in 1..Len(ret.states) :
            /\ Len(ret.states[j]) = NProcessed
            /\ \A p \in 1..NProcessed : \A r \in Rows :
                /\ MaskAt(p)[r] = 0 =>
                      ret.states[j][p][r] =
                          IF IsFirst(p) THEN InitialState(j)[r]
                          ELSE ret.states[j][Before(p)][r]
                /\ ~backwards =>
                      \A q \in LastValid(p, r) :
                          ret.states[j][p][r] = ret.states[j][q][r]

\* A row padded at a timestep that is not the first processed, whose state
\* before it was not the initial state any more; seen in both directions.
C4_WitnessAt(b) ==
    /\ pc # "start" /\ ~ret.raised /\ backwards = b
    /\ \E j \in 1..Len(ret.states) : \E p \in 1..NProcessed : \E r \in Rows :
        /\ MaskAt(p)[r] = 0 /\ ~IsFirst(p)
        /\ MaskAt(Before(p))[r] = 1
        /\ ret.states[j][Before(p)][r] # InitialState(j)[r]
        /\ ret.states[j][p][r] = ret.states[j][Before(p)][r]
C4_Witness == C4_WitnessAt(TRUE)
C4_WitnessForwards == C4_WitnessAt(FALSE)

\* C5: group_outputs puts channel k of the ungrouped sequences at the rank
\* of k among the states if its recurrence is not OutputOnly and at the rank
\* of k among the outputs if it is; the two lists hold nothing else, and
\* together as many entries as the units have recurrences.
NRecs(k) == IF k = 0 THEN 0 ELSE n_rec(units[k])
TotalRecs == LET sum[k \in 0..Len(units)] ==
                     IF k = 0 THEN 0 ELSE sum[k - 1] + n_rec(units[k])
             IN  sum[Len(units)]
C5_GroupsPartition ==
    (pc = "called" /\ ~ret.raised) =>
        /\ Len(seqs) = TotalRecs
        /\ Len(ret.states) + Len(ret.outputs) = TotalRecs
        /\ Len(ret.states) = NStates
        /\ \A k \in 1..Len(seqs) :
              IF IsState(k) THEN ret.states[Rank(k)] = seqs[k]
              ELSE ret.outputs[Rank(k)] = seqs[k]

\* A call that returned two states and, around and between them, three
\* outputs, over at least one timestep.
C5_Witness ==
    /\ pc # "start" /\ ~ret.raised /\ NProcessed >= 1
    /\ Len(ret.states) = 2 /\ Len(ret.outputs) = 3
    /\ ~IsState(1) /\ ~IsState(Len(Recs))

\* The channel of the first recurrence of the last unit.
FirstOfLast == TotalRecs + 1 - n_rec(units[Len(units)])

\* C6 as claimed: the final output is the channel of the first recurrence
\* of the last unit, and at every timestep it is the value that unit would
\* pass on as current input to a following unit.
C6_FinalOutIsNextInput ==
    (pc \in {"ready", "failed"} /\ ~ret.raised) =>
        /\ ret.final_out = seqs[FirstOfLast]
        /\ \A t \in 1..Len(dec_outs) :
              ret.final_out[PlaceOf(t)] = Fresh(t)[FirstOfLast]

\* C6: the final output is the channel of the first recurrence of the last
\* unit; at a timestep it is the value that unit would pass on as current
\* input in the rows whose mask is not 0, and in all rows if the channel is
\* OutputOnly (the last unit is a ResidualUnit); in a row whose mask is 0 it
\* is otherwise the state passed in.
C6_FinalOutIsFirstOfLast ==
    /\ (pc # "start" /\ ~ret.raised) => ret.final_out = seqs[FirstOfLast]
    /\ (pc \in {"ready", "failed"} /\ ~ret.raised) =>
        \A t \in 1..Len(dec_outs) : \A r \in Rows :
            ret.final_out[PlaceOf(t)][r] =
                IF MaskOf(t)[r] # 0 \/ ~IsState(FirstOfLast)
                THEN Fresh(t)[FirstOfLast][r]
                ELSE PrevState(t, FirstOfLast)[r]

\* A stack of two units, the last a ResidualUnit, and a masked row in which
\* the final output is the sum the ResidualUnit computed and neither its
\* wrapped unit's output nor the first channel of the stack.
C6_Witness ==
    /\ pc \in {"ready", "failed"} /\ ~ret.raised
    /\ Len(units) = 2 /\ units[2].residual > 0
    /\ \E t \in 1..Len(dec_outs) : \E r \in Rows :
        /\ MaskOf(t)[r] = 0
        /\ ret.final_out[PlaceOf(t)][r] = Fresh(t)[FirstOfLast][r]
        /\ ret.final_out[PlaceOf(t)][r] # seqs[FirstOfLast + 1][PlaceOf(t)][r]
        /\ ret.final_out[PlaceOf(t)][r] # seqs[1][PlaceOf(t)][r]

\* The recurrence left without an initial value: the first one with init
\* None after those the caller's values cover.
FirstMissing ==
    { k \in 1..Len(Recs) :
        /\ Recs[k].init = None
        /\ Cardinality({ j \in 1..(k - 1) : Recs[j].init = None })
             = Len(nontrainable_recurrent_inits) }

\* C7: with fewer initial states than recurrences with init None, make_inits
\* raises the exception that names the first recurrence left without one,
\* in the whole-sequence call and in the decoder's call alike, and gives no
\* vector back.
C7_TooFewInitsRaises ==
    Len(nontrainable_recurrent_inits) < NeededInits(units) =>
        /\ pc # "start" =>
              /\ ret.raised /\ ret.exc = "Exception"
              /\ ret.from = "make_inits" /\ ret.decl \in FirstMissing
              /\ ret.final_out = << >> /\ ret.states = << >>
              /\ ret.outputs = << >> /\ seqs = << >>
        /\ pc \notin {"start", "called"} =>
              /\ pc = "failed"
              /\ dec_ret.raised /\ dec_ret.exc = "Exception"
              /\ dec_ret.decl \in FirstMissing
              /\ dec_ret.value = << >> /\ dec_states = << >>

\* Both calls raised, naming a recurrence that is not the first of the
\* stack, the caller having supplied some initial states.
C7_Witness ==
    /\ pc = "failed" /\ ret.raised /\ dec_ret.raised
    /\ Len(nontrainable_recurrent_inits) >= 1
    /\ ret.decl > 1 /\ dec_ret.decl = ret.decl

\* C8 as claimed: with enough initial states and fewer non-sequences than
\* the declarations without func, the whole-sequence call raises a
\* configuration error that names a declaration.
C8_TooFewNonseqsNamed ==
    (/\ pc = "called"
     /\ Len(nontrainable_recurrent_inits) >= NeededInits(units)
     /\ Len(dec_non_sequences) < NeededNonseqs(units)) =>
        ret.raised /\ ret.exc = "Exception" /\ ret.decl # 0

\* The result of a whole-sequence call with every sequence reversed.
ReverseEach(ss) == [c \in 1..Len(ss) |-> Reverse(ss[c])]
Reversed(res) ==
    [res EXCEPT !.final_out = Reverse(@), !.states = ReverseEach(@),
                !.outputs = ReverseEach(@)]
AllOnes == \A t \in 1..Len(inputs_mask) : \A r \in Rows : inputs_mask[t][r] = 1

\* What the call would have returned in the other direction, on the same
\* input and on the input reversed in time.
OtherDirection ==
    call(units, ~backwards, offset, inputs, inputs_mask,
         nontrainable_recurrent_inits, dec_non_sequences).ret
OtherDirectionOnReversed ==
    call(units, ~backwards, offset, Reverse(inputs), Reverse(inputs_mask),
         nontrainable_recurrent_inits, dec_non_sequences).ret

\* C9 as claimed: on a mask of ones the call returns what the call in the
\* other direction returns on the same input.
C9_BackwardsEqualsForwards ==
    (pc = "called" /\ ~ret.raised /\ AllOnes) => ret = OtherDirection

\* C9: with offset 0 the call returns, reversed in time, what the call in
\* the other direction returns on the input and mask reversed in time, on a
\* mask of ones as on any other; on at most one timestep that is what the
\* other direction returns on the same input.
C9_BackwardsIsForwardsOnReversed ==
    (pc = "called" /\ ~ret.raised /\ offset = 0) =>
        /\ ret = Reversed(OtherDirectionOnReversed)
        /\ Len(inputs) <= 1 => ret = OtherDirection

\* A backwards call on two timesteps of ones that returned something else
\* than the forwards call does on the same input.
C9_Witness ==
    /\ pc = "called" /\ ~ret.raised /\ AllOnes /\ offset = 0
    /\ backwards /\ Len(inputs) >= 2
    /\ ret # OtherDirection
    /\ ret = Reversed(OtherDirectionOnReversed)

\* Single-step call t on a stack whose first unit is a ResidualUnit: the
\* recurrent inputs and non-sequences of that unit, and what the unit it
\* wraps returns on them and on the input of the call.
FirstUnitRecs(t) ==
    SubSeq(dec_in[t].args, 1,
           Cardinality({ k \in 1..n_rec(units[1]) : IsState(k) }))
FirstUnitNonseqs(t) ==
    SubSeq(dec_in[t].args, NStates + 1, NStates + n_nonseq(units[1]))
WrappedOut(t) ==
    unit_step(wrapped(units[1]), dec_in[t].inputs, FirstUnitRecs(t),
              FirstUnitNonseqs(t))

\* C10: a ResidualUnit declares one OutputOnly recurrence and then the
\* recurrences of the unit it wraps, and that unit's non-sequences; its
\* step gives the elementwise sum of its input and the wrapped unit's first
\* output, and then the wrapped unit's outputs in their order; the stack
\* emits the sum in every row, and the wrapped unit's states in the rows
\* whose mask is not 0.
C10_ResidualUnit ==
    /\ \A i \in 1..Len(units) : units[i].residual > 0 =>
          /\ recurrences(units[i])[1].init = OutputOnly
          /\ Tail(recurrences(units[i])) = recurrences(wrapped(units[i]))
          /\ non_sequences_of(units[i]) = non_sequences_of(wrapped(units[i]))
    /\ units[1].residual > 0 =>
          \A t \in 1..Len(dec_outs) :
              /\ Len(WrappedOut(t)) = n_rec(units[1]) - 1
              /\ unit_step(units[1], dec_in[t].inputs, FirstUnitRecs(t),
                           FirstUnitNonseqs(t))
                   = << [r \in Rows |->
                          (dec_in[t].inputs[r] + WrappedOut(t)[1][r])
                              % Modulus] >> \o WrappedOut(t)
              /\ \A r \in Rows :
                    dec_outs[t][1][r] =
                        (dec_in[t].inputs[r] + WrappedOut(t)[1][r]) % Modulus
              /\ \A j \in 1..Len(WrappedOut(t)) : \A r \in Rows :
                    (MaskOf(t)[r] # 0 \/ ~IsState(j + 1)) =>
                        dec_outs[t][j + 1][r] = WrappedOut(t)[j][r]

\* A single-step call on a ResidualUnit around an attention unit whose
\* first output is not zero in an unmasked row.
C10_Witness ==
    /\ units[1].residual > 0 /\ units[1].use_attention
    /\ \E t \in 1..Len(dec_outs) : \E r \in Rows :
        /\ MaskOf(t)[r] = 1
        /\ WrappedOut(t)[1][r] # 0
        /\ dec_outs[t][1][r] # dec_in[t].inputs[r]
        /\ dec_outs[t][2][r] = WrappedOut(t)[1][r]

\* The recurrences and non-sequences declared by the units before unit i,
\* and the states among the recurrences before and of unit i.
RecsBefore(i) ==
    LET sum[k \in 0..Len(units)] ==
            IF k = 0 THEN 0 ELSE sum[k - 1] + n_rec(units[k])
    IN  sum[i - 1]
NonseqsBefore(i) ==
    LET sum[k \in 0..Len(units)] ==
            IF k = 0 THEN 0 ELSE sum[k - 1] + n_nonseq(units[k])
    IN  sum[i - 1]
StatesBefore(i) == Cardinality({ k \in 1..RecsBefore(i) : IsState(k) })
StatesOf(i) ==
    Cardinality({ k \in (RecsBefore(i) + 1)..(RecsBefore(i) + n_rec(units[i])) :
                    IsState(k) })

\* Unit i's own part of a flat argument list a: its recurrent inputs and
\* its non-sequences.
OwnRecs(a, i) == SubSeq(a, StatesBefore(i) + 1, StatesBefore(i) + StatesOf(i))
OwnNonseqs(a, i) ==
    SubSeq(a, NStates + NonseqsBefore(i) + 1,
           NStates + NonseqsBefore(i) + n_nonseq(units[i]))

\* The output group of every unit on input x and arguments a, unit 1 on x
\* and unit i + 1 on the first output of unit i.
UnitOuts(x, a) ==
    LET out[i \in 1..Len(units)] ==
            unit_step(units[i], IF i = 1 THEN x ELSE out[i - 1][1],
                      OwnRecs(a, i), OwnNonseqs(a, i))
    IN  out
InOrder(x, a) == Concat(UnitOuts(x, a))

\* The single-step call made last, if any; every call is the last one in
\* the state it leads to.
LastCall == {Len(dec_outs)} \ {0}

\* C11: in every single-step call the units are applied in stack order,
\* unit 1 on the external input and unit i + 1 on the first output of unit
\* i, each on its own recurrent inputs and non-sequences; the flat list the
\* units compute is their output groups in unit order, and that is what the
\* call returns once the mask is applied.
C11_UnitsInStackOrder ==
    \A t \in LastCall :
        LET o == InOrder(dec_in[t].inputs, dec_in[t].args) IN
        /\ Fresh(t) = o
        /\ Len(dec_outs[t]) = Len(Recs)
        /\ \A k \in 1..Len(Recs) : \A r \in Rows :
              dec_outs[t][k][r] =
                  IF IsState(k) /\ MaskOf(t)[r] = 0 THEN PrevState(t, k)[r]
                  ELSE o[k][r]

\* A call on two units in which the second was fed something else than the
\* external input and the last output of the first, and would have returned
\* something else on the external input.
C11_Witness ==
    /\ Len(units) >= 2
    /\ \E t \in 1..Len(dec_outs) :
        LET x == dec_in[t].inputs
            a == dec_in[t].args
            o == UnitOuts(x, a) IN
        /\ o[1][1] # x
        /\ o[1][1] # o[1][Len(o[1])]
        /\ o[2] # unit_step(units[2], x, OwnRecs(a, 2), OwnNonseqs(a, 2))
        /\ dec_outs[t] # << >>

\* The unit at the core of unit u, inside its ResidualUnits, and how many
\* of the recurrences of u are not OutputOnly.
Core(u) == [u EXCEPT !.residual = 0]
NStatesOf(u) ==
    Cardinality({ j \in 1..n_rec(u) : recurrences(u)[j].init # OutputOnly })

\* The hidden state, the cell and, of a SeparatePathLSTMUnit, the separate
\* path of the core u after a step on input x, recurrent inputs rs and
\* non-sequences ns.
CoreValues(u, x, rs, ns) ==
    LET y == affine(affine_inputs(u, x, rs, ns),
                    IF u.cls = "LSTMUnit" THEN 1 ELSE 2, rs[1],
                    IF u.cls = "LSTMUnit" THEN 2 ELSE 1) IN
    IF u.cls = "LSTMUnit" THEN gate(y, rs[2]) ELSE separate_path(y, rs[2])

\* What the recurrence named v of a core is after a step with values hc on
\* recurrent inputs rs and non-sequences ns.
Named(v, hc, rs, ns) ==
    CASE v = "h_tm1" -> hc[1]
      [] v = "c_tm1" -> hc[2]
      [] v = "attention" -> attention_of(rs[1], ns[2], ns[3])
      [] v = "h_breve" -> hc[3]

\* The outputs o of a step of u are those of its declarations, in their
\* order: every residual the sum of the input and the output after it, and
\* every recurrence of the core the value of its name.
InDeclaredOrder(u, o, x, rs, ns) ==
    LET hc == CoreValues(Core(u), x, rs, ns)
        decls == recurrences(u) IN
    /\ Len(o) = Len(decls)
    /\ \A j \in 1..Len(o) :
          IF j <= u.residual
          THEN /\ decls[j] = residual
               /\ o[j] = TAdd(x, o[j + 1])
          ELSE o[j] = Named(decls[j].variable, hc, rs, ns)

\* C12: every unit of a stack takes two recurrent inputs, as many as it
\* declares recurrences that are not OutputOnly, and its step returns one
\* output per recurrence it declares, in the order of the declarations; in
\* every single-step call each unit is given that many recurrent inputs,
\* the list the units compute and the list of inputs and sentinels are as
\* long as the list of recurrences, and entry k of the latter is the
\* sentinel if recurrence k is OutputOnly and else the state passed in.
C12_ArityMatchesDeclarations ==
    /\ pc = "start" =>
          \A i \in 1..Len(units) :
              /\ NStatesOf(units[i]) = 2
              /\ InDeclaredOrder(units[i],
                     unit_step(units[i], InputAt(1), SuppliedInits(2),
                               SuppliedNonseqs(n_nonseq(units[i]))),
                     InputAt(1), SuppliedInits(2),
                     SuppliedNonseqs(n_nonseq(units[i])))
    /\ \A t \in LastCall :
          LET x == dec_in[t].inputs
              a == dec_in[t].args
              g == group_rec(units, 1, 1, a, << >>, << >>, << >>)
              o == [i \in 1..Len(units) |-> UnitOuts(x, a)[i]] IN
          /\ \A i \in 1..Len(units) :
                /\ Len(g.grouped_rec[i]) = NStatesOf(units[i])
                /\ InDeclaredOrder(units[i], o[i],
                       IF i = 1 THEN x ELSE o[i - 1][1],
                       g.grouped_rec[i], OwnNonseqs(a, i))
          /\ Len(Fresh(t)) = Len(Recs)
          /\ Len(g.recurrents_in) = Len(Recs)
          /\ \A k \in 1..Len(Recs) :
                g.recurrents_in[k] =
                    IF IsState(k) THEN PrevState(t, k) ELSE OutputOnly

\* A call on a ResidualUnit around a SeparatePathLSTMUnit with attention:
\* two recurrent inputs, five outputs, the attention and the separate path
\* different.
C12_Witness ==
    /\ units[1].residual > 0 /\ units[1].use_attention
    /\ units[1].cls = "SeparatePathLSTMUnit"
    /\ \E t \in 1..Len(dec_outs) :
        /\ Len(dec_in[t].args) = 2 + 3
        /\ Len(dec_outs[t]) = 5
        /\ dec_outs[t][4] # dec_outs[t][5]

\* The rank of recurrence k among those with init None, and the vectors
\* make_inits builds from the caller's values, without and with the
\* placeholders.
NoneRank(k) == Cardinality({ j \in 1..k : Recs[j].init = None })
InitsFedBack ==
    make_inits(units, nontrainable_recurrent_inits, batch_size, FALSE)
InitsWithNones ==
    make_inits(units, nontrainable_recurrent_inits, batch_size, TRUE)

\* What the initial state of recurrence k has to be: the caller's next
\* value, or the trainable init in every row of the batch.
InitFor(k) ==
    IF Recs[k].init = None THEN nontrainable_recurrent_inits[NoneRank(k)]
    ELSE [r \in Rows |-> Recs[k].init[1]]

\* C13: with enough values supplied, the vector make_inits gives the
\* decoder has one entry per recurrence that is not OutputOnly, in the order
\* of the recurrences: the caller's next value for an init of None, the
\* trainable init in every row of the batch otherwise; with include_nones,
\* as in the whole-sequence call, it has one entry per recurrence, the same
\* values and None at every OutputOnly recurrence.
C13_InitsInDeclarationOrder ==
    Len(nontrainable_recurrent_inits) >= NeededInits(units) =>
        /\ pc = "inits" =>
              /\ ~dec_ret.raised /\ dec_states = InitsFedBack.value
              /\ Len(dec_states) = NStates
              /\ \A k \in 1..Len(Recs) :
                    IsState(k) => dec_states[Rank(k)] = InitFor(k)
        /\ pc = "called" =>
              /\ ~InitsWithNones.raised
              /\ Len(InitsWithNones.value) = Len(Recs)
              /\ \A k \in 1..Len(Recs) :
                    InitsWithNones.value[k] =
                        IF IsState(k) THEN InitFor(k) ELSE None
              /\ (~ret.raised /\ NProcessed > 0) =>
                    \A j \in 1..NStates : \A r \in Rows :
                        MaskAt(IF backwards THEN NProcessed ELSE 1)[r] = 0 =>
                            ret.states[j][IF backwards THEN NProcessed
                                          ELSE 1][r]
                                = InitsFedBack.value[j][r]

\* The decoder's vector for a stack of a trainable and a non-trainable
\* unit with an OutputOnly recurrence: two different values of the caller
\* after two trainable inits.
C13_Witness ==
    /\ pc = "inits" /\ Len(units) = 2
    /\ units[1].trainable_initial /\ ~units[2].trainable_initial
    /\ \E k \in 1..Len(Recs) : ~IsState(k)
    /\ Len(dec_states) = 4
    /\ dec_states[3] = nontrainable_recurrent_inits[1]
    /\ dec_states[4] = nontrainable_recurrent_inits[2]
    /\ dec_states[3] # dec_states[4]
    /\ dec_states[1] = [r \in Rows |-> 1]

\* The non-sequence declarations of the stack, the unit of declaration m,
\* and the rank of m among the declarations without func.
Decls == DeepSequence_non_sequences(units)
UnitOfDecl(m) ==
    CHOOSE i \in 1..Len(units) :
        NonseqsBefore(i) < m /\ m <= NonseqsBefore(i) + n_nonseq(units[i])
ExtRank(m) == Cardinality({ j \in 1..m : Decls[j].func = "None" })

\* What the entry of declaration m has to be when the caller supplied the
\* list ext: its next value, or the func of the declaration on the value
\* idx places after the first one supplied for the same unit.
NonseqFor(m, ext) ==
    IF Decls[m].func = "None" THEN ext[ExtRank(m)]
    ELSE attention_u(ext[ExtRank(NonseqsBefore(UnitOfDecl(m)))
                         + Decls[m].idx[1] + 1])

\* The vector make_nonsequences builds for the whole-sequence call.
NonseqsWithParams == make_nonsequences(units, dec_non_sequences, TRUE, FALSE)

\* C14: with enough values supplied, make_nonsequences gives one entry per
\* declared non-sequence, units in order and declarations in order: the
\* caller's next value for a declaration without func, and for a
\* precomputed one its func on the attended tensor supplied for the same
\* unit; the whole-sequence call gets the parameters of the units after
\* them, in unit order, the decoder gets none.
C14_NonseqsInDeclarationOrder ==
    /\ (/\ pc \in {"called", "inits"}
        /\ Len(dec_non_sequences) >= NeededNonseqs(units)) =>
              /\ ~NonseqsWithParams.raised
              /\ SubSeq(NonseqsWithParams.value, 1, Len(Decls))
                   = [m \in 1..Len(Decls) |-> NonseqFor(m, dec_non_sequences)]
              /\ SubSeq(NonseqsWithParams.value, Len(Decls) + 1,
                        Len(NonseqsWithParams.value))
                   = Concat([i \in 1..Len(units) |->
                                parameters_list(units[i], i)])
              /\ \A m \in 1..Len(Decls) : Decls[m].func # "None" =>
                    /\ Decls[NonseqsBefore(UnitOfDecl(m)) + 1].variable
                         = "attended"
                    /\ NonseqsWithParams.value[m] =
                         attention_u(NonseqsWithParams.value[
                             NonseqsBefore(UnitOfDecl(m)) + 1])
    /\ pc = "ready" =>
          dec_nonseqs = [m \in 1..Len(Decls) |->
                            NonseqFor(m, SuppliedNonseqs(NeededNonseqs(units)))]

\* The decoder's vector for two attention units: the second unit's
\* precomputed entry comes from the second unit's attended tensor, which is
\* not the first unit's.
C14_Witness ==
    /\ pc = "ready" /\ Len(units) = 2
    /\ units[1].use_attention /\ units[2].use_attention
    /\ Len(dec_nonseqs) = 6
    /\ dec_nonseqs[5] = attention_u(dec_nonseqs[4])
    /\ dec_nonseqs[5] # attention_u(dec_nonseqs[1])
    /\ dec_nonseqs[2] = attention_u(dec_nonseqs[1])

\* The arguments of the direct call of step that are left once the
\* recurrent inputs are taken.
StepRest == SubSeq(step_in.args, NStates + 1, Len(step_in.args))

\* C15: a call of step with fewer arguments left after the recurrent inputs
\* than the units declare non-sequences raises the exception for missing
\* non-sequences and returns nothing; with enough of them every unit is
\* given as many as it declares, the next ones in unit order, and what is
\* left over plays no part.
C15_TooFewNonseqsInStep ==
    /\ pc = "stepped" =>
          IF Len(StepRest) < Len(Decls)
          THEN /\ dec_ret.raised /\ dec_ret.exc = "Exception"
               /\ dec_ret.value = << >>
          ELSE /\ ~dec_ret.raised
               /\ LET n == group_nonseq(units, 1, StepRest, << >>) IN
                  /\ ~n.raised
                  /\ Len(n.grouped_nonseq) = Len(units)
                  /\ \A i \in 1..Len(units) :
                        /\ Len(n.grouped_nonseq[i]) = n_nonseq(units[i])
                        /\ n.grouped_nonseq[i] = OwnNonseqs(step_in.args, i)
               /\ Len(StepRest) > Len(Decls) =>
                      dec_ret.value =
                          step(units, step_in.inputs, step_in.inputs_mask,
                               SubSeq(step_in.args, 1,
                                      NStates + Len(Decls))).value
               /\ Len(dec_ret.value) = Len(Recs)
    /\ \A t \in LastCall :
          LET n == group_nonseq(units, 1,
                                SubSeq(dec_in[t].args, NStates + 1,
                                       Len(dec_in[t].args)),
                                << >>) IN
          \A i \in 1..Len(units) :
              n.grouped_nonseq[i] = OwnNonseqs(dec_in[t].args, i)

\* A call of step on two attention units with the non-sequences of the
\* first and not all of the second: it raised.
C15_Witness ==
    /\ pc = "stepped" /\ Len(units) = 2
    /\ n_nonseq(units[1]) = 3 /\ n_nonseq(units[2]) = 3
    /\ Len(StepRest) >= 4 /\ Len(StepRest) < 6
    /\ dec_ret.raised /\ dec_ret.value = << >>

\* A call of step with arguments to spare, which returned.
C15_WitnessEnough ==
    /\ pc = "stepped" /\ Len(Decls) > 0
    /\ Len(StepRest) > Len(Decls)
    /\ ~dec_ret.raised /\ Len(dec_ret.value) = Len(Recs)

\* The keys of the functions compiled so far.
Compiled == { compiled[n] : n \in 1..Len(compiled) }

\* C16: no function is compiled twice: the single-step function is
\* compiled by the first single-step call and by none after it, and a
\* precomputation function by the first call that asks for its declaration;
\* the two caches hold what was compiled.
C16_CompiledOnce ==
    /\ \A a \in 1..Len(compiled) : \A b \in 1..Len(compiled) :
          compiled[a] = compiled[b] => a = b
    /\ step_fun_cache = (StepFunKey \in Compiled)
    /\ ns_func_cache = Compiled \ {StepFunKey}
    /\ Len(dec_outs) >= 1 => step_fun_cache
    /\ (rounds >= 1 /\ pc = "ready") =>
          \A m \in 1..Len(Decls) : Decls[m].func # "None" =>
              << UnitOfDecl(m), m - NonseqsBefore(UnitOfDecl(m)) >>
                  \in ns_func_cache

\* Two single-step calls and two rounds of non-sequences on an attention
\* unit, and two functions compiled.
C16_Witness ==
    /\ rounds = 2 /\ pc = "ready"
    /\ Len(dec_outs) >= 2
    /\ ns_func_cache # {}
    /\ Len(compiled) = 2
    /\ compiled[2] = StepFunKey

\* The timesteps the whole-sequence call processes, in time order; the
\* states that go into the step on the timestep at place p, those of the
\* timestep processed before it or the initial ones; and what that step
\* returns.
Timesteps == TapSlice(inputs, offset)
Incoming(p) ==
    IF IsFirst(p) THEN InitsFedBack.value
    ELSE [j \in 1..NStates |-> ret.states[j][Before(p)]]
ProducedAt(p) ==
    step(units, Timesteps[p], MaskAt(p),
         Incoming(p) \o NonseqsWithParams.value).value

\* C17: place p of every sequence the whole-sequence call returns holds
\* what step returned on timestep p and on the states of the timestep
\* processed before it: timestep p + 1 when running backwards, the last
\* timestep being processed first on the initial states, and timestep
\* p - 1 when running forwards, the first being processed first.
C17_ProcessingOrder ==
    (pc = "called" /\ ~ret.raised) =>
        /\ Len(seqs) = Len(Recs)
        /\ \A c \in 1..Len(seqs) :
              /\ Len(seqs[c]) = Len(Timesteps)
              /\ \A p \in 1..Len(Timesteps) : seqs[c][p] = ProducedAt(p)[c]

\* A call over two timesteps of ones or more, in which the state that went
\* into the second timestep processed was not the initial state.
C17_WitnessAt(b) ==
    /\ pc = "called" /\ ~ret.raised /\ backwards = b
    /\ Len(Timesteps) >= 2
    /\ \E p \in 1..Len(Timesteps) :
        /\ ~IsFirst(p) /\ IsFirst(Before(p))
        /\ MaskAt(p) = Ones /\ MaskAt(Before(p)) = Ones
        /\ Incoming(p) # InitsFedBack.value
        /\ seqs[1][p] = ProducedAt(p)[1]
        /\ seqs[1][p] # seqs[1][Before(p)]
C17_Witness == C17_WitnessAt(TRUE)
C17_WitnessForwards == C17_WitnessAt(FALSE)

\* C18 as claimed: after the whole-sequence call the caller's list of
\* non-sequences holds what it held before the call.
C18_CallerListsUnchanged ==
    pc = "called" => non_sequences = dec_non_sequences

====
